---- MODULE Spec2Model ----
(***************************************************************************)
(* CraftHouse: the GraphQL resolver layer (server/schemas/resolvers.js)    *)
(* over the User, DIY, Comment and Like collections, and the SearchBar     *)
(* React component (client/src/components/searchBar.js).                   *)
(*                                                                         *)
(* A resolver is an async function.  Every "await Model.op(...)" is one    *)
(* round trip to the database; the database applies each single-document  *)
(* operation atomically, and resolver calls of different clients          *)
(* interleave between round trips.  One action below is one round trip    *)
(* together with the synchronous code that follows it up to the next      *)
(* await (or up to the return / throw).                                    *)
(***************************************************************************)
EXTENDS Integers, Sequences, FiniteSets, TLC

VARIABLES users, diys, comments, likes, nextComment, nextLike, call,
          searchTerm, loading, data, cache, inflight, mounted,
          term, result

dbVars  == <<users, diys, comments, likes, nextComment, nextLike>>
barVars == <<searchTerm, loading, data, cache, inflight, mounted>>
fnVars  == <<term, result>>
vars    == <<users, diys, comments, likes, nextComment, nextLike, call,
             searchTerm, loading, data, cache, inflight, mounted,
             term, result>>

(***************************************************************************)
(* Bounds of the model.                                                    *)
(***************************************************************************)
MaxDIYs         == 1    \* DIY documents ever created
MaxComments     == 1    \* Comment documents ever created
MaxLikes        == 2    \* Like documents ever created
MaxSessionLikes == 1    \* the same, where one session calls every mutation
MaxSaved        == 1    \* length of a user's savedDIYs list
MaxLen          == 2    \* length of a title, description or search term
MaxTyped        == 1    \* length of the text typed into the search bar
SearchDocs      == 2    \* DIY documents in a searched collection

Users   == {"u1", "u2"}      \* registered accounts
NoUser  == "nobody"          \* context.user absent
Clients == {"c1", "c2"}      \* connections whose resolver calls interleave

\* ObjectIds.  Id 0 of each collection is a well-formed id that names no
\* document, now or later.
GhostId    == 0
DIYIds     == 0 .. MaxDIYs
ObjectIds  == Nat

Range(s) == {s[i] : i \in DOMAIN s}

Min(S) == CHOOSE x \in S : \A y \in S : x <= y

(***************************************************************************)
(* MongoDB array update operators.                                         *)
(***************************************************************************)
Push(arr, x) == Append(arr, x)

AddToSet(arr, x) == IF x \in Range(arr) THEN arr ELSE Append(arr, x)

\* { $pull: { field: value } }: removes every element equal to value.
Pull(arr, x) == SelectSeq(arr, LAMBDA e : e # x)

\* { $pull: { field: { key: value } } }: removes every element that is an
\* embedded document whose key equals value.  An array of references holds
\* ObjectIds, which are not documents and have no fields.
IsSubdocument(e) == e \notin ObjectIds

PullWhere(arr, key, value) ==
    SelectSeq(arr, LAMBDA e : ~(IsSubdocument(e) /\ e[key] = value))

(***************************************************************************)
(* Model.findByIdAndUpdate / findOneAndUpdate: no document, no update.     *)
(***************************************************************************)
FindAndPush(coll, id, field, x) ==
    IF id \in DOMAIN coll THEN [coll EXCEPT ![id][field] = Push(@, x)] ELSE coll

FindAndAddToSet(coll, id, field, x) ==
    IF id \in DOMAIN coll THEN [coll EXCEPT ![id][field] = AddToSet(@, x)] ELSE coll

FindAndPull(coll, id, field, x) ==
    IF id \in DOMAIN coll THEN [coll EXCEPT ![id][field] = Pull(@, x)] ELSE coll

FindAndPullWhere(coll, id, field, key, value) ==
    IF id \in DOMAIN coll
    THEN [coll EXCEPT ![id][field] = PullWhere(@, key, value)]
    ELSE coll

Insert(coll, id, doc) ==
    [k \in DOMAIN coll \cup {id} |-> IF k = id THEN doc ELSE coll[k]]

Remove(coll, id) == [k \in DOMAIN coll \ {id} |-> coll[k]]

(***************************************************************************)
(* Resolver calls.                                                         *)
(***************************************************************************)
Idle == [pc |-> "idle"]

Returned(op, u, arg) ==
    [pc |-> "done", op |-> op, user |-> u, arg |-> arg, outcome |-> "returned"]

Threw(op, u, arg) ==
    [pc |-> "done", op |-> op, user |-> u, arg |-> arg, outcome |-> "threw"]

\* if (context.user)
LoggedInAlways(u) == TRUE

LoggedIn(u) == u # NoUser

\* the throw that follows a failed "if (context.user)"
NotLoggedIn(c, u, op, arg) ==
    /\ call[c] = Idle
    /\ ~LoggedIn(u)
    /\ call' = [call EXCEPT ![c] = Threw(op, u, arg)]
    /\ UNCHANGED dbVars

\* the client receives the response and may issue its next request
Respond(c) ==
    /\ call[c].pc = "done"
    /\ call' = [call EXCEPT ![c] = Idle]
    /\ UNCHANGED dbVars

(***************************************************************************)
(* Mutation.addDIY                                                         *)
(***************************************************************************)
NewDIYId == Cardinality(DOMAIN diys) + 1

AddDIYCreate(c, u, title, description) ==
    /\ call[c] = Idle
    /\ LoggedIn(u)
    /\ NewDIYId <= MaxDIYs
    /\ diys' = Insert(diys, NewDIYId,
                      [user |-> u, title |-> title, description |-> description,
                       createdAt |-> NewDIYId,
                       comments |-> <<>>, likes |-> <<>>])
    /\ call' = [call EXCEPT ![c] =
                  [pc |-> "addDIY.push", op |-> "addDIY", user |-> u,
                   arg |-> GhostId, id |-> NewDIYId]]
    /\ UNCHANGED <<users, comments, likes, nextComment, nextLike>>

AddDIYPushOmitted(c) ==
    /\ call[c].pc = "addDIY.push"
    /\ call' = [call EXCEPT ![c].pc = "addDIY.read"]
    /\ UNCHANGED dbVars

AddDIYPushTwice(c) ==
    /\ call[c].pc = "addDIY.push"
    /\ users' = FindAndPush(FindAndPush(users, call[c].user, "DIYs", call[c].id),
                             call[c].user, "DIYs", call[c].id)
    /\ call' = [call EXCEPT ![c].pc = "addDIY.read"]
    /\ UNCHANGED <<diys, comments, likes, nextComment, nextLike>>

AddDIYPush(c) ==
    /\ call[c].pc = "addDIY.push"
    /\ users' = FindAndPush(users, call[c].user, "DIYs", call[c].id)
    /\ call' = [call EXCEPT ![c].pc = "addDIY.read"]
    /\ UNCHANGED <<diys, comments, likes, nextComment, nextLike>>

AddDIYRead(c) ==
    /\ call[c].pc = "addDIY.read"
    /\ call' = [call EXCEPT ![c] = Returned("addDIY", call[c].user, call[c].arg)]
    /\ UNCHANGED dbVars

(***************************************************************************)
(* Mutation.addComment                                                     *)
(***************************************************************************)
AddCommentCreate(c, u, DIYId) ==
    /\ call[c] = Idle
    /\ LoggedIn(u)
    /\ nextComment <= MaxComments
    /\ comments' = Insert(comments, nextComment, [user |-> u, DIY |-> DIYId])
    /\ nextComment' = nextComment + 1
    /\ call' = [call EXCEPT ![c] =
                  [pc |-> "addComment.pushDIY", op |-> "addComment", user |-> u,
                   arg |-> DIYId, id |-> nextComment]]
    /\ UNCHANGED <<users, diys, likes, nextLike>>

AddCommentPushDIYOmitted(c) ==
    /\ call[c].pc = "addComment.pushDIY"
    /\ call' = [call EXCEPT ![c].pc = "addComment.pushUser"]
    /\ UNCHANGED dbVars

AddCommentPushDIY(c) ==
    /\ call[c].pc = "addComment.pushDIY"
    /\ diys' = FindAndPush(diys, call[c].arg, "comments", call[c].id)
    /\ call' = [call EXCEPT ![c].pc = "addComment.pushUser"]
    /\ UNCHANGED <<users, comments, likes, nextComment, nextLike>>

AddCommentPushUser(c) ==
    /\ call[c].pc = "addComment.pushUser"
    /\ users' = FindAndPush(users, call[c].user, "comments", call[c].id)
    /\ call' = [call EXCEPT ![c].pc = "addComment.read"]
    /\ UNCHANGED <<diys, comments, likes, nextComment, nextLike>>

AddCommentRead(c) ==
    /\ call[c].pc = "addComment.read"
    /\ call' = [call EXCEPT ![c] =
                  Returned("addComment", call[c].user, call[c].arg)]
    /\ UNCHANGED dbVars

(***************************************************************************)
(* Mutation.removeComment                                                  *)
(***************************************************************************)
\* comment.user.toString() === context.user._id.toString()
IsAuthorAlways(comment, u) == TRUE

IsAuthor(comment, u) == comment.user = u

\* Comment.findById, then the author check.  A missing comment is null and
\* "comment.user" throws; both throws are caught and rethrown.
RemoveCommentFind(c, u, commentId) ==
    /\ call[c] = Idle
    /\ LoggedIn(u)
    /\ IF commentId \in DOMAIN comments /\ IsAuthor(comments[commentId], u)
       THEN call' = [call EXCEPT ![c] =
                       [pc |-> "removeComment.pull", op |-> "removeComment",
                        user |-> u, arg |-> commentId,
                        found |-> comments[commentId]]]
       ELSE call' = [call EXCEPT ![c] = Threw("removeComment", u, commentId)]
    /\ UNCHANGED dbVars

RemoveCommentPull(c) ==
    /\ call[c].pc = "removeComment.pull"
    /\ diys' = FindAndPull(diys, call[c].found.DIY, "comments", call[c].arg)
    /\ call' = [call EXCEPT ![c].pc = "removeComment.remove"]
    /\ UNCHANGED <<users, comments, likes, nextComment, nextLike>>

RemoveCommentRemove(c) ==
    /\ call[c].pc = "removeComment.remove"
    /\ comments' = Remove(comments, call[c].arg)
    /\ call' = [call EXCEPT ![c] =
                  Returned("removeComment", call[c].user, call[c].arg)]
    /\ UNCHANGED <<users, diys, likes, nextComment, nextLike>>

(***************************************************************************)
(* Mutation.saveDIY / Mutation.removeDIY                                   *)
(***************************************************************************)
SaveDIY(c, u, DIYId) ==
    /\ call[c] = Idle
    /\ LoggedIn(u)
    /\ u \in DOMAIN users => Len(users[u].savedDIYs) < MaxSaved
    /\ users' = FindAndPush(users, u, "savedDIYs", DIYId)
    /\ call' = [call EXCEPT ![c] = Returned("saveDIY", u, DIYId)]
    /\ UNCHANGED <<diys, comments, likes, nextComment, nextLike>>

RemoveDIY(c, u, DIYId) ==
    /\ call[c] = Idle
    /\ LoggedIn(u)
    /\ users' = FindAndPull(users, u, "savedDIYs", DIYId)
    /\ call' = [call EXCEPT ![c] = Returned("removeDIY", u, DIYId)]
    /\ UNCHANGED <<diys, comments, likes, nextComment, nextLike>>

(***************************************************************************)
(* Mutation.addLike                                                        *)
(***************************************************************************)
AddLikeCreate(c, u, DIYId, limit) ==
    /\ call[c] = Idle
    /\ LoggedIn(u)
    /\ nextLike <= limit
    /\ likes' = Insert(likes, nextLike, [user |-> u, DIY |-> DIYId])
    /\ nextLike' = nextLike + 1
    /\ call' = [call EXCEPT ![c] =
                  [pc |-> "addLike.addDIY", op |-> "addLike", user |-> u,
                   arg |-> DIYId, id |-> nextLike]]
    /\ UNCHANGED <<users, diys, comments, nextComment>>

AddLikeAddDIY(c) ==
    /\ call[c].pc = "addLike.addDIY"
    /\ diys' = FindAndAddToSet(diys, call[c].arg, "likes", call[c].id)
    /\ call' = [call EXCEPT ![c].pc = "addLike.addUser"]
    /\ UNCHANGED <<users, comments, likes, nextComment, nextLike>>

AddLikeAddUser(c) ==
    /\ call[c].pc = "addLike.addUser"
    /\ users' = FindAndAddToSet(users, call[c].user, "likes", call[c].id)
    /\ call' = [call EXCEPT ![c].pc = "addLike.read"]
    /\ UNCHANGED <<diys, comments, likes, nextComment, nextLike>>

AddLikeRead(c) ==
    /\ call[c].pc = "addLike.read"
    /\ call' = [call EXCEPT ![c] = Returned("addLike", call[c].user, call[c].arg)]
    /\ UNCHANGED dbVars

(***************************************************************************)
(* Mutation.removeLike                                                     *)
(***************************************************************************)
LikesBy(u, DIYId) ==
    {l \in DOMAIN likes : likes[l].user = u /\ likes[l].DIY = DIYId}

\* Like.findOneAndDelete({user, DIY}): deletes the first matching document,
\* if there is one.
RemoveLikeDelete(c, u, DIYId) ==
    /\ call[c] = Idle
    /\ LoggedIn(u)
    /\ likes' = IF LikesBy(u, DIYId) = {} THEN likes
                ELSE Remove(likes, Min(LikesBy(u, DIYId)))
    /\ call' = [call EXCEPT ![c] =
                  [pc |-> "removeLike.pullDIY", op |-> "removeLike", user |-> u,
                   arg |-> DIYId]]
    /\ UNCHANGED <<users, diys, comments, nextComment, nextLike>>

RemoveLikePullDIY(c) ==
    /\ call[c].pc = "removeLike.pullDIY"
    /\ diys' = FindAndPullWhere(diys, call[c].arg, "likes", "user", call[c].user)
    /\ call' = [call EXCEPT ![c].pc = "removeLike.pullUser"]
    /\ UNCHANGED <<users, comments, likes, nextComment, nextLike>>

RemoveLikePullUser(c) ==
    /\ call[c].pc = "removeLike.pullUser"
    /\ users' = FindAndPullWhere(users, call[c].user, "likes", "DIY", call[c].arg)
    /\ call' = [call EXCEPT ![c].pc = "removeLike.read"]
    /\ UNCHANGED <<diys, comments, likes, nextComment, nextLike>>

RemoveLikeRead(c) ==
    /\ call[c].pc = "removeLike.read"
    /\ call' = [call EXCEPT ![c] =
                  Returned("removeLike", call[c].user, call[c].arg)]
    /\ UNCHANGED dbVars

(***************************************************************************)
(* Query.allDIYs: DIY.find().populate('user').  The value kept is, for     *)
(* every DIY returned, the DIYs list of its populated user.                *)
(***************************************************************************)
AllDIYs(c) ==
    /\ call[c] = Idle
    /\ call' = [call EXCEPT ![c] =
                  [pc |-> "done", op |-> "allDIYs", user |-> NoUser,
                   arg |-> GhostId, outcome |-> "returned",
                   result |-> [d \in DOMAIN diys |->
                                 IF diys[d].user \in DOMAIN users
                                 THEN users[diys[d].user].DIYs ELSE <<>>]]]
    /\ UNCHANGED dbVars

(***************************************************************************)
(* Query.searchDIYs                                                        *)
(*                                                                         *)
(* Text is a sequence of characters.  "a" and "A" are one letter in two    *)
(* cases; "." is an ordinary character of a title and the any-character    *)
(* atom of a regular expression.                                           *)
(***************************************************************************)
Alphabet == {"a", "A", "."}

TextsOf(n) == UNION {[1 .. k -> Alphabet] : k \in 0 .. n}

Texts == TextsOf(MaxLen)

Lower(ch) == IF ch = "A" THEN "a" ELSE ch

\* One pattern atom of { $regex: searchTerm, $options: 'i' } against one
\* character of the field.
AtomMatches(atom, ch) == atom = "." \/ Lower(atom) = Lower(ch)

\* An unanchored regular expression matches when it matches at some offset.
RegexMatches(pattern, text) ==
    \E i \in 0 .. (Len(text) - Len(pattern)) :
        \A j \in 1 .. Len(pattern) : AtomMatches(pattern[j], text[i + j])

\* { sort: { createdAt: -1 } }
RECURSIVE SortNewestFirst(_, _)
SortNewestFirst(ds, S) ==
    IF S = {} THEN <<>>
    ELSE LET d == CHOOSE x \in S : \A y \in S : ds[y].createdAt <= ds[x].createdAt
         IN  <<d>> \o SortNewestFirst(ds, S \ {d})

\* DIY.find() without a sort: the documents in insertion order.
RECURSIVE NaturalOrder(_)
NaturalOrder(S) ==
    IF S = {} THEN <<>>
    ELSE <<Min(S)>> \o NaturalOrder(S \ {Min(S)})

searchDIYs(ds, t) ==
    IF t # <<>>
    THEN SortNewestFirst(ds, {d \in DOMAIN ds :
                                 \/ RegexMatches(t, ds[d].title)
                                 \/ RegexMatches(t, ds[d].description)})
    ELSE NaturalOrder(DOMAIN ds)

Undefined == <<-1>>

\* One execution of the searchDIYs resolver.
SearchDIYs(t) ==
    /\ term' = t
    /\ result' = searchDIYs(diys, t)
    /\ UNCHANGED <<dbVars, call, barVars>>

(***************************************************************************)
(* SearchBar.  useQuery(SEARCH_DIYS, {variables: {searchTerm},             *)
(* skip: !searchTerm}) with the client's default cache-first policy:       *)
(*   - skipped: loading is false and data is undefined;                    *)
(*   - variables whose result is cached: loading is false, data is the     *)
(*     cached result;                                                      *)
(*   - otherwise a request goes out, loading is true and data is undefined *)
(*     until the response for the current variables arrives;               *)
(*   - a failed request leaves loading false and data undefined.           *)
(***************************************************************************)
\* what the JSX of the results panel evaluates to
Render(st, ld, dt) ==
    IF st = <<>> THEN "hidden"
    ELSE IF ld THEN "searching"
    ELSE IF dt = Undefined THEN "TypeError"      \* data.searchDIYs
    ELSE IF Len(dt) > 0 THEN "results"
    ELSE "no results"

\* setSearchTerm(value) and the render that follows it
SetSearchTerm(value) ==
    /\ searchTerm' = value
    /\ IF value = <<>>
       THEN /\ loading' = FALSE
            /\ data' = Undefined
            /\ inflight' = inflight
       ELSE IF value \in DOMAIN cache
       THEN /\ loading' = FALSE
            /\ data' = cache[value]
            /\ inflight' = inflight
       ELSE /\ loading' = TRUE
            /\ data' = Undefined
            /\ inflight' = inflight \cup {value}
    /\ mounted' = (Render(searchTerm', loading', data') # "TypeError")
    /\ UNCHANGED <<cache, dbVars, call, fnVars>>

handleChange(value) ==
    /\ mounted
    /\ SetSearchTerm(value)

handleSearch ==
    /\ mounted
    /\ SetSearchTerm(<<>>)

\* onClick of a result link
clearSearch ==
    /\ mounted
    /\ Render(searchTerm, loading, data) = "results"
    /\ SetSearchTerm(<<>>)

QuerySuccess(t) ==
    /\ mounted
    /\ t \in inflight
    /\ inflight' = inflight \ {t}
    /\ cache' = Insert(cache, t, searchDIYs(diys, t))
    /\ IF t = searchTerm
       THEN loading' = FALSE /\ data' = searchDIYs(diys, t)
       ELSE UNCHANGED <<loading, data>>
    /\ mounted' = (Render(searchTerm, loading', data') # "TypeError")
    /\ UNCHANGED <<searchTerm, dbVars, call, fnVars>>

QueryFailure(t) ==
    /\ mounted
    /\ t \in inflight
    /\ inflight' = inflight \ {t}
    /\ IF t = searchTerm
       THEN loading' = FALSE /\ data' = Undefined
       ELSE UNCHANGED <<loading, data>>
    /\ mounted' = (Render(searchTerm, loading', data') # "TypeError")
    /\ UNCHANGED <<searchTerm, cache, dbVars, call, fnVars>>

(***************************************************************************)
(* The resolver layer: initial state and next-state relation.              *)
(***************************************************************************)
SessionOps == {"addDIY", "addComment", "removeComment", "saveDIY",
               "removeDIY", "addLike", "removeLike"}

SamplePost == [title |-> <<"a">>, description |-> <<"A", ".">>]

NewUser == [DIYs |-> <<>>, comments |-> <<>>, likes |-> <<>>, savedDIYs |-> <<>>]

EmptyCollection == [k \in {} |-> GhostId]

BarIdle ==
    /\ searchTerm = <<>>
    /\ loading = FALSE
    /\ data = Undefined
    /\ cache = EmptyCollection
    /\ inflight = {}
    /\ mounted = TRUE

FnIdle ==
    /\ term = <<>>
    /\ result = Undefined

Init ==
    /\ users = [u \in Users |-> NewUser]
    /\ diys = EmptyCollection
    /\ comments = EmptyCollection
    /\ likes = EmptyCollection
    /\ nextComment = 1
    /\ nextLike = 1
    /\ call = [c \in Clients |-> Idle]
    /\ BarIdle
    /\ FnIdle

Callers == Users \cup {NoUser}

\* The ids a request can carry.  ObjectIds are generated by the server, so a
\* client has the ids the API has shown it, and ids that name nothing.  A DIY
\* is shown by the queries as soon as it is created.  A comment is shown once
\* its id has been pushed to the comments list of a DIY or of a user.
Unpublished(k) ==
    \E c \in Clients :
        \/ call[c].pc = "addComment.pushDIY" /\ call[c].id = k
        \/ /\ call[c].pc = "addComment.pushUser"
           /\ call[c].id = k
           /\ call[c].arg \notin DOMAIN diys

KnownDIYIds == {GhostId} \cup DOMAIN diys

KnownCommentIds ==
    {GhostId} \cup {k \in 1 .. (nextComment - 1) : ~Unpublished(k)}

Rejected(Cs, Ops) ==
    \E c \in Cs, op \in Ops, arg \in KnownDIYIds \cup KnownCommentIds :
        NotLoggedIn(c, NoUser, op, arg)

AddDIY(Cs, Us) ==
    \/ \E c \in Cs, u \in Us :
           AddDIYCreate(c, u, SamplePost.title, SamplePost.description)
    \/ \E c \in Cs : AddDIYPush(c)
    \/ \E c \in Cs : AddDIYRead(c)

AddComment(Cs, Us) ==
    \/ \E c \in Cs, u \in Us, d \in KnownDIYIds : AddCommentCreate(c, u, d)
    \/ \E c \in Cs : AddCommentPushDIY(c)
    \/ \E c \in Cs : AddCommentPushUser(c)
    \/ \E c \in Cs : AddCommentRead(c)

RemoveComment(Cs, Us) ==
    \/ \E c \in Cs, u \in Us, k \in KnownCommentIds : RemoveCommentFind(c, u, k)
    \/ \E c \in Cs : RemoveCommentPull(c)
    \/ \E c \in Cs : RemoveCommentRemove(c)

SavedDIYs(Cs, Us) ==
    \/ \E c \in Cs, u \in Us, d \in KnownDIYIds : SaveDIY(c, u, d)
    \/ \E c \in Cs, u \in Us, d \in KnownDIYIds : RemoveDIY(c, u, d)

AddLike(Cs, Us, limit) ==
    \/ \E c \in Cs, u \in Us, d \in KnownDIYIds : AddLikeCreate(c, u, d, limit)
    \/ \E c \in Cs : AddLikeAddDIY(c)
    \/ \E c \in Cs : AddLikeAddUser(c)
    \/ \E c \in Cs : AddLikeRead(c)

RemoveLike(Cs, Us) ==
    \/ \E c \in Cs, u \in Us, d \in KnownDIYIds : RemoveLikeDelete(c, u, d)
    \/ \E c \in Cs : RemoveLikePullDIY(c)
    \/ \E c \in Cs : RemoveLikePullUser(c)
    \/ \E c \in Cs : RemoveLikeRead(c)

Queries(Cs) == \E c \in Cs : AllDIYs(c)

Responses(Cs) == \E c \in Cs : Respond(c)

\* DIYs and comments, calls of all clients interleaved.
Next ==
    /\ \/ Rejected(Clients, {"addDIY", "addComment", "removeComment"})
       \/ AddDIY(Clients, Callers)
       \/ AddComment(Clients, Callers)
       \/ RemoveComment(Clients, Callers)
       \/ Queries(Clients)
       \/ Responses(Clients)
    /\ UNCHANGED <<barVars, fnVars>>

Spec == Init /\ [][Next]_vars

\* DIYs and likes, calls of all clients interleaved.
NextLikes ==
    /\ \/ Rejected(Clients, {"addDIY", "addLike", "removeLike"})
       \/ AddDIY(Clients, Callers)
       \/ AddLike(Clients, Callers, MaxLikes)
       \/ RemoveLike(Clients, Callers)
       \/ Responses(Clients)
    /\ UNCHANGED <<barVars, fnVars>>

SpecLikes == Init /\ [][NextLikes]_vars

\* Every mutation that needs a session, called with and without one.
NextSession ==
    /\ \/ Rejected({"c1"}, SessionOps)
       \/ AddDIY({"c1"}, {"u1", NoUser})
       \/ AddComment({"c1"}, {"u1", NoUser})
       \/ RemoveComment({"c1"}, {"u1", NoUser})
       \/ SavedDIYs({"c1"}, {"u1", NoUser})
       \/ AddLike({"c1"}, {"u1", NoUser}, MaxSessionLikes)
       \/ RemoveLike({"c1"}, {"u1", NoUser})
       \/ Responses({"c1"})
    /\ UNCHANGED <<barVars, fnVars>>

SpecSession == Init /\ [][NextSession]_vars

(***************************************************************************)
(* searchDIYs over every small collection.                                 *)
(***************************************************************************)
Post(id, title, description) ==
    [user |-> "u1", title |-> title, description |-> description,
     createdAt |-> id, comments |-> <<>>, likes |-> <<>>]

Collections ==
    UNION {[1 .. n -> [title : Texts, description : Texts]] : n \in 0 .. SearchDocs}

\* A database in which u1 has posted the DIYs of collection coll.
Posted(coll) ==
    /\ users = [u \in Users |->
                  IF u = "u1" THEN [NewUser EXCEPT !.DIYs = NaturalOrder(DOMAIN coll)]
                  ELSE NewUser]
    /\ diys = [d \in DOMAIN coll |-> Post(d, coll[d].title, coll[d].description)]
    /\ comments = EmptyCollection
    /\ likes = EmptyCollection
    /\ nextComment = 1
    /\ nextLike = 1
    /\ call = [c \in Clients |-> Idle]

InitSearch ==
    /\ \E coll \in Collections : Posted(coll)
    /\ BarIdle
    /\ FnIdle

NextSearch == \E t \in Texts : SearchDIYs(t)

SpecSearch == InitSearch /\ [][NextSearch]_vars

(***************************************************************************)
(* The search bar over a collection of two posts.                          *)
(***************************************************************************)
SamplePosts ==
    <<[title |-> <<"a">>, description |-> <<"A", ".">>],
      [title |-> <<"A", "a">>, description |-> <<>>]>>

InitBar ==
    /\ Posted(SamplePosts)
    /\ BarIdle
    /\ FnIdle

NextBar ==
    \/ \E value \in TextsOf(MaxTyped) : handleChange(value)
    \/ handleSearch
    \/ clearSearch
    \/ \E t \in TextsOf(MaxTyped) : QuerySuccess(t)
    \/ \E t \in TextsOf(MaxTyped) : QueryFailure(t)

SpecBar == InitBar /\ [][NextBar]_vars

(***************************************************************************)
(* Properties.                                                             *)
(***************************************************************************)
\* no resolver call is between two of its database operations
Quiescent == \A c \in Clients : call[c].pc \in {"idle", "done"}

Occurrences(arr, x) == Cardinality({i \in DOMAIN arr : arr[i] = x})

C2_LoggedInGate ==
    [][\A c \in Clients :
          (/\ call[c] = Idle
           /\ call'[c] # Idle
           /\ call'[c].op \in SessionOps
           /\ call'[c].user = NoUser)
          => (/\ call'[c].pc = "done"
              /\ call'[c].outcome = "threw"
              /\ UNCHANGED dbVars)]_vars

C2_Witness ==
    \E c \in Clients :
        /\ call[c].pc = "done"
        /\ call[c].op \in SessionOps
        /\ call[c].user = NoUser
        /\ call[c].outcome = "threw"
        /\ DOMAIN diys # {}
        /\ DOMAIN comments # {}

\* C3: a removeComment call by a logged-in user who is not the author of the
\* comment, or whose commentId names no comment, ends in an error and changes
\* no document; a Comment document is deleted, and an id is taken out of a
\* DIY's comments list, only by a removeComment call of the comment's author.
C3_AuthorGate ==
    [][/\ \A c \in Clients :
            (/\ call[c] = Idle
             /\ call'[c] # Idle
             /\ call'[c].op = "removeComment"
             /\ call'[c].user \in Users
             /\ ~(/\ call'[c].arg \in DOMAIN comments
                  /\ comments[call'[c].arg].user = call'[c].user))
            => (/\ call'[c].pc = "done"
                /\ call'[c].outcome = "threw"
                /\ UNCHANGED dbVars)
       /\ \A k \in DOMAIN comments :
            k \notin DOMAIN comments' =>
                \E c \in Clients :
                    /\ call[c].pc = "removeComment.remove"
                    /\ call[c].arg = k
                    /\ call[c].user = comments[k].user
                    /\ call'[c].pc = "done"
       /\ \A d \in DOMAIN diys :
            \A k \in Range(diys[d].comments) \ Range(diys'[d].comments) :
                \E c \in Clients :
                    /\ call[c].pc = "removeComment.pull"
                    /\ call[c].arg = k
                    /\ call[c].user = call[c].found.user
                    /\ call'[c].pc = "removeComment.remove"]_vars

C3_Witness ==
    \E c \in Clients :
        /\ call[c].pc = "done"
        /\ call[c].op = "removeComment"
        /\ call[c].outcome = "threw"
        /\ call[c].user \in Users
        /\ call[c].arg \in DOMAIN comments
        /\ comments[call[c].arg].user # call[c].user

\* C4 as stated: no query sees a state between two writes of one mutation;
\* every DIY that allDIYs returns is listed in the DIYs of its populated user.
C4_SingleStep ==
    \A c \in Clients :
        (call[c].pc = "done" /\ call[c].op = "allDIYs") =>
            \A d \in DOMAIN call[c].result : d \in Range(call[c].result[d])

\* C4 amended: the state between two writes of a mutation exists, and is seen
\* by queries, only while that mutation is in progress: a DIY document is
\* absent from its user's DIYs only while the addDIY call that created it has
\* not done its $push, and a Comment document is absent from the comments of
\* its (existing) DIY only while the addComment call that created it has not
\* done its $push or a removeComment call for it has done its $pull.
C4_InProgressOnly ==
    /\ \A d \in DOMAIN diys :
          d \notin Range(users[diys[d].user].DIYs) =>
              \E c \in Clients : call[c].pc = "addDIY.push" /\ call[c].id = d
    /\ \A k \in DOMAIN comments :
          (/\ comments[k].DIY \in DOMAIN diys
           /\ k \notin Range(diys[comments[k].DIY].comments)) =>
              \E c \in Clients :
                  \/ call[c].pc = "addComment.pushDIY" /\ call[c].id = k
                  \/ call[c].pc = "removeComment.remove" /\ call[c].arg = k

C4_Witness ==
    \E c, w \in Clients :
        /\ call[c].pc = "done"
        /\ call[c].op = "allDIYs"
        /\ \E d \in DOMAIN call[c].result : d \notin Range(call[c].result[d])
        /\ call[w].pc = "addDIY.push"

\* C5: for a non-empty term searchDIYs returns exactly the DIYs whose title or
\* description contains the term as a case-insensitive substring, newest
\* first; for an empty term it returns all DIYs.
Contains(text, t) ==
    \E i \in 0 .. (Len(text) - Len(t)) :
        \A j \in 1 .. Len(t) : Lower(text[i + j]) = Lower(t[j])

C5_SubstringSearch ==
    result # Undefined =>
        IF term # <<>>
        THEN result = SortNewestFirst(diys,
                          {d \in DOMAIN diys : \/ Contains(diys[d].title, term)
                                               \/ Contains(diys[d].description, term)})
        ELSE Range(result) = DOMAIN diys /\ Len(result) = Cardinality(DOMAIN diys)

\* C6: whenever no mutation is in progress, every id in a DIY's likes list
\* and in a user's likes list is the id of an existing Like document, for
\* that DIY and by that user.
C6_LikesRefer ==
    Quiescent =>
        /\ \A d \in DOMAIN diys : \A l \in Range(diys[d].likes) :
              l \in DOMAIN likes /\ likes[l].DIY = d
        /\ \A u \in Users : \A l \in Range(users[u].likes) :
              l \in DOMAIN likes /\ likes[l].user = u

\* C7: whenever no mutation is in progress, a DIY id is in a user's DIYs list
\* exactly when that DIY document exists and the user is its owner, and it is
\* there once.
C7_UserDIYs ==
    Quiescent =>
        \A u \in Users : \A d \in DIYIds :
            /\ d \in Range(users[u].DIYs) <=>
                   (d \in DOMAIN diys /\ diys[d].user = u)
            /\ Occurrences(users[u].DIYs, d) <= 1

C7_Witness ==
    /\ Quiescent
    /\ \E c \in Clients :
          /\ call[c].pc = "done"
          /\ call[c].op = "addDIY"
          /\ call[c].outcome = "returned"
          /\ Len(users[call[c].user].DIYs) > 0

\* C8: whenever no mutation is in progress, every id in a user's comments
\* list is the id of an existing Comment document written by that user.
C8_UserCommentsRefer ==
    Quiescent =>
        \A u \in Users : \A k \in Range(users[u].comments) :
            k \in DOMAIN comments /\ comments[k].user = u

\* C9: for every user and DIY there is at most one Like document by that user
\* for that DIY.
C9_AtMostOneLike ==
    \A u \in Users : \A d \in DIYIds : Cardinality(LikesBy(u, d)) <= 1

\* C10: whenever the search term is not empty and the query is not loading,
\* the query's data is defined, and the results panel is shown exactly when
\* the search term is not empty.
C10_DataAvailable ==
    /\ (searchTerm # <<>> /\ ~loading) => data # Undefined
    /\ Render(searchTerm, loading, data) # "hidden" <=> searchTerm # <<>>

====
